---- MODULE Spec2Model ----
(***************************************************************************)
(* Push-notification subscription manager of the portal front end.         *)
(*                                                                         *)
(* Two page-side managers exist in the repository:                         *)
(*   NotificationService      (services/notification.service.ts, axios)    *)
(*   PushNotificationClient   (static push client, window.fetch)           *)
(* A page loads one of them (impl).  Every async method is modelled as a   *)
(* call that advances from one await to the next; calls of different       *)
(* callers interleave at the awaits, as on the page's event loop.          *)
(*                                                                         *)
(* Further parts, each with a specification of its own:                    *)
(*   SpecSW     the event handlers of the two service worker scripts       *)
(*   SpecCodec  urlB64ToUint8Array of both managers                        *)
(*   SpecApi    the 401 interceptor of ApiService (services/api.service.ts)*)
(***************************************************************************)
EXTENDS Integers, Sequences, FiniteSets, TLC

\* ------------------------------------------------------------------ bounds
MaxCalls == 2
Calls == 1..MaxCalls
\* how many requests the page makes through the ApiService instance
MaxReqs == 2
Reqs == 1..MaxReqs
\* how long a string handed to the key codec is at most
MaxLen == 4
\* how often each codec is called on the same string at most
MaxDecodes == 2
UserIds == {"u1", "u2"}

\* ------------------------------------------------------------- value sets
Null == "null"
Reg == "registration"
ValidKey == "BEl6"
MalformedKey == "B*l6"
NoKey == ""
\* what GET /notifications/vapid-key can carry in data.data.vapid_public_key
VapidKeys == {ValidKey, MalformedKey}
\* how the backend answers one HTTP request
BackendOutcomes == {"ok", "httperr", "neterr"}
\* how a platform promise (service worker, push manager) settles
PlatformOutcomes == {"ok", "fail"}

VARIABLES
    impl,             \* which manager class the page instantiated
    hasServiceWorker, \* 'serviceWorker' in navigator
    hasPushManager,   \* 'PushManager' in window
    swRegistration,   \* this.swRegistration
    isSubscribed,     \* this.isSubscribed
    vapidPublicKey,   \* this.vapidPublicKey (NotificationService only)
    platformSub,      \* the platform holds a push subscription for the worker
    lastInit,         \* how the last finished initialize()/init() ended
    calls,            \* the async calls in flight, one record per caller
    solo,             \* the call that runs with no other call in flight, and
                      \* the flag and platform subscription it found on entry
    swHandler,        \* the worker event handler that is running, if any
    swEvent,          \* the event it was dispatched with
    swEffects,        \* the platform calls the handler has made, in order
    requests,         \* the HTTP requests made through the ApiService instance
    isRefreshing,     \* ApiService.isRefreshing
    refreshSubscribers, \* ApiService.refreshSubscribers: the requests whose
                      \* callbacks are queued, in order
    refreshes,        \* the token-refresh requests started so far
    localStorage,     \* the access and refresh tokens in local storage
    location,         \* window.location.href
    codecInput,       \* the string handed to urlB64ToUint8Array
    codecOutput       \* what each manager's codec returned, call after call

managerVars ==
    <<impl, hasServiceWorker, hasPushManager, swRegistration, isSubscribed,
      vapidPublicKey, platformSub, lastInit, calls, solo>>

workerVars == <<swHandler, swEvent, swEffects>>

apiVars ==
    <<requests, isRefreshing, refreshSubscribers, refreshes, localStorage,
      location>>

codecVars == <<codecInput, codecOutput>>

vars == <<managerVars, workerVars, apiVars, codecVars>>

\* ------------------------------------------------------------ call records
Idle ==
    [op |-> "none", pc |-> "idle", userId |-> "-", ret |-> "none",
     value |-> {}, log |-> <<>>, assigned |-> <<>>]

NoSolo == [call |-> 0, flag |-> FALSE, sub |-> FALSE]

InFlight(d) == calls[d].pc \notin {"idle", "done"}

\* a resolved promise resumes its caller before any other event is handled
NoneDone == \A d \in Calls : calls[d].pc # "done"

\* caller c may invoke a method
CanStart(c) == calls[c].pc = "idle" /\ NoneDone

\* the await at label of call c may resume
Resumes(c, label) == calls[c].pc = label /\ NoneDone

\* a fresh record for operation o
Entered(c, o, u) == [Idle EXCEPT !.op = o, !.pc = "run", !.userId = u]

\* the call table after caller c's record became r in its first step
Begin(c, r) == [calls EXCEPT ![c] = r]

\* the solo record once caller c has entered a method
SoloAt(c) ==
    IF \A d \in Calls \ {c} : ~InFlight(d)
    THEN [call |-> c, flag |-> isSubscribed, sub |-> platformSub]
    ELSE NoSolo

\* the request req(arg) goes out and the call suspends at label next
Issued(r, req, arg, next) ==
    [r EXCEPT !.log = Append(@, [req |-> req, arg |-> arg, res |-> "pending"]),
              !.pc = next]

\* the awaited request settles with outcome res
Settled(r, res) == [r EXCEPT !.log[Len(r.log)].res = res]

\* the async method resolves with v
Returned(r, v) == [r EXCEPT !.pc = "done", !.ret = v]

\* the method assigned b to this.isSubscribed
Assigned(r, b) == [r EXCEPT !.assigned = Append(@, b)]

TypeOK ==
    /\ impl \in {"NotificationService", "PushNotificationClient"}
    /\ hasServiceWorker \in BOOLEAN /\ hasPushManager \in BOOLEAN
    /\ swRegistration \in {Null, Reg}
    /\ isSubscribed \in BOOLEAN
    /\ vapidPublicKey \in {Null, NoKey} \cup VapidKeys
    /\ platformSub \in BOOLEAN
    /\ lastInit \in {"none", "unsupported", "error", "ready"}
    /\ \A c \in Calls : calls[c].pc = "idle" => calls[c] = Idle
    /\ solo.call \in Calls \cup {0}
    /\ swHandler.variant \in {"none", "messaging", "callback"}
    /\ swHandler.kind \in {"none", "push", "click", "close", "subchange"}
    /\ swHandler.pc \in {"idle", "show", "matchAll", "focus", "openWindow",
                         "details", "fetch", "json", "redirect", "track",
                         "resubscribe", "update", "done"}
    /\ swHandler.extended \in BOOLEAN
    /\ swHandler.pc = "idle" => swEvent.kind = "none" /\ swEffects = <<>>

InitPage ==
    /\ impl \in {"NotificationService", "PushNotificationClient"}
    /\ hasServiceWorker \in BOOLEAN
    /\ hasPushManager \in BOOLEAN
    /\ swRegistration = Null
    /\ isSubscribed = FALSE
    /\ vapidPublicKey = Null
    /\ platformSub \in BOOLEAN
    /\ (platformSub => hasServiceWorker /\ hasPushManager)
    /\ lastInit = "none"
    /\ calls = [c \in Calls |-> Idle]
    /\ solo = NoSolo
    /\ swHandler = [variant |-> "none", kind |-> "none", pc |-> "idle",
                    threw |-> FALSE, settled |-> "-", extended |-> FALSE]
    /\ swEvent = [kind |-> "none"]
    /\ swEffects = <<>>

\* no access token in a request or in local storage
NoToken == -1

\* a request the page has not made yet
NewRequest ==
    [state |-> "idle", retry |-> FALSE, sends |-> 0, answers |-> 0,
     status |-> 0, token |-> NoToken, error |-> "-"]

\* the page is logged in: both tokens are stored, nothing is in flight
InitApi ==
    /\ requests = [r \in Reqs |-> NewRequest]
    /\ isRefreshing = FALSE
    /\ refreshSubscribers = <<>>
    /\ refreshes = <<>>
    /\ localStorage = [access |-> 0, refresh |-> TRUE]
    /\ location = "/"

\* the managers' codecs, not called yet
Codecs == {"NotificationService", "PushNotificationClient"}
InitCodecOutput == codecOutput = [m \in Codecs |-> <<>>]

Init ==
    /\ InitPage
    /\ InitApi
    /\ codecInput = <<>>
    /\ InitCodecOutput

\* ------------------------------------------------------------ HTTP clients
\* axios rejects the promise on a network error and on every non-2xx status
AxiosRejects(o) == o # "ok"

\* window.fetch rejects only on a network error; an HTTP error status resolves
FetchRejects(o) == o = "neterr"

\* ---------------------------------------------------------------- key codec
\* window.atob raises on a character outside the base64 alphabet
DecodeThrows(k) == k = MalformedKey

\* ------------------------------------------- NotificationService: key cache
\* if (this.vapidPublicKey) return this.vapidPublicKey
VapidCached == vapidPublicKey \notin {Null, NoKey}

\* this.vapidPublicKey = response.data.data.vapid_public_key
KeyAfterFetch(o, k) == IF AxiosRejects(o) THEN vapidPublicKey ELSE k

\* getVapidPublicKey rethrows a rejected GET and throws on a falsy key
KeyFetchThrows_swallowed(o, k) == k = NoKey

KeyFetchThrows(o, k) == AxiosRejects(o) \/ k = NoKey

\* --------------------------------------- NotificationService.initialize()
\* neither `'serviceWorker' in navigator` nor `'PushManager' in window` fails
NS_supported_swOnly == hasServiceWorker

NS_supported == hasServiceWorker /\ hasPushManager

\* catch (error) { console.error(...); return false; }
NS_initialize_catch(r) == Returned(r, "false")

NS_initialize(c) ==
    /\ impl = "NotificationService"
    /\ UNCHANGED <<workerVars, apiVars, codecVars>>
    /\ CanStart(c)
    /\ solo' = SoloAt(c)
    /\ LET r == Entered(c, "initialize", "-") IN
        IF ~NS_supported
        THEN /\ calls' = Begin(c, Returned(r, "false"))
             /\ lastInit' = "unsupported"
        ELSE /\ calls' = Begin(c, Issued(r, "sw.register", "/sw.js", "init_register"))
             /\ UNCHANGED lastInit
    /\ UNCHANGED <<impl, hasServiceWorker, hasPushManager, swRegistration,
                   isSubscribed, vapidPublicKey, platformSub>>

NS_initialize_register(c) ==
    /\ impl = "NotificationService"
    /\ UNCHANGED <<workerVars, apiVars, codecVars>>
    /\ Resumes(c, "init_register")
    /\ UNCHANGED solo
    /\ \E res \in PlatformOutcomes :
        LET r == Settled(calls[c], res) IN
        IF res = "ok"
        THEN /\ swRegistration' = Reg
             /\ calls' = [calls EXCEPT ![c] =
                    Issued(r, "pm.getSubscription", "-", "init_probe")]
             /\ UNCHANGED lastInit
        ELSE /\ calls' = [calls EXCEPT ![c] = NS_initialize_catch(r)]
             /\ lastInit' = "error"
             /\ UNCHANGED swRegistration
    /\ UNCHANGED <<impl, hasServiceWorker, hasPushManager, isSubscribed,
                   vapidPublicKey, platformSub>>

NS_initialize_probe(c) ==
    /\ impl = "NotificationService"
    /\ UNCHANGED <<workerVars, apiVars, codecVars>>
    /\ Resumes(c, "init_probe")
    /\ UNCHANGED solo
    /\ \E res \in PlatformOutcomes :
        LET r == Settled(calls[c], res) IN
        IF res = "ok"
        THEN /\ isSubscribed' = platformSub
             /\ IF VapidCached
                THEN /\ calls' = [calls EXCEPT ![c] =
                            Returned(Assigned(r, platformSub), "true")]
                     /\ lastInit' = "ready"
                ELSE /\ calls' = [calls EXCEPT ![c] =
                            Issued(Assigned(r, platformSub),
                                   "GET vapid-key", "-", "init_key")]
                     /\ UNCHANGED lastInit
        ELSE /\ calls' = [calls EXCEPT ![c] = NS_initialize_catch(r)]
             /\ lastInit' = "error"
             /\ UNCHANGED isSubscribed
    /\ UNCHANGED <<impl, hasServiceWorker, hasPushManager, swRegistration,
                   vapidPublicKey, platformSub>>

NS_initialize_key(c) ==
    /\ impl = "NotificationService"
    /\ UNCHANGED <<workerVars, apiVars, codecVars>>
    /\ Resumes(c, "init_key")
    /\ UNCHANGED solo
    /\ \E o \in BackendOutcomes, k \in VapidKeys \cup {NoKey} :
        LET r == Settled(calls[c], IF o = "ok" /\ k = NoKey THEN "nokey" ELSE o) IN
        /\ vapidPublicKey' = KeyAfterFetch(o, k)
        /\ IF KeyFetchThrows(o, k)
           THEN /\ calls' = [calls EXCEPT ![c] = NS_initialize_catch(r)]
                /\ lastInit' = "error"
           ELSE /\ calls' = [calls EXCEPT ![c] = Returned(r, "true")]
                /\ lastInit' = "ready"
    /\ UNCHANGED <<impl, hasServiceWorker, hasPushManager, swRegistration,
                   isSubscribed, platformSub>>

\* ------------------------------------- NotificationService.subscribe(userId)
\* catch (error) { console.error(...); return false; }
NS_subscribe_catch_rethrown(r) == Returned(r, "throw")

NS_subscribe_catch(r) == Returned(r, "false")

\* if (!this.swRegistration) throw new Error(...)
NS_subscribe_guard_missing == TRUE

NS_subscribe_guard == swRegistration # Null

\* from the decoded key on: urlB64ToUint8Array(vapidKey), pushManager.subscribe
NS_subscribe_withKey(r, k) ==
    IF DecodeThrows(k)
    THEN NS_subscribe_catch(r)
    ELSE Issued(r, "pm.subscribe", k, "sub_pm")

NS_subscribe(c, u) ==
    /\ impl = "NotificationService"
    /\ UNCHANGED <<workerVars, apiVars, codecVars>>
    /\ CanStart(c)
    /\ solo' = SoloAt(c)
    /\ LET r == Entered(c, "subscribe", u) IN
        calls' = Begin(c,
            IF ~NS_subscribe_guard THEN NS_subscribe_catch(r)
            ELSE IF VapidCached THEN NS_subscribe_withKey(r, vapidPublicKey)
            ELSE Issued(r, "GET vapid-key", "-", "sub_key"))
    /\ UNCHANGED <<impl, hasServiceWorker, hasPushManager, swRegistration,
                   isSubscribed, vapidPublicKey, platformSub, lastInit>>

NS_subscribe_key(c) ==
    /\ impl = "NotificationService"
    /\ UNCHANGED <<workerVars, apiVars, codecVars>>
    /\ Resumes(c, "sub_key")
    /\ UNCHANGED solo
    /\ \E o \in BackendOutcomes, k \in VapidKeys \cup {NoKey} :
        LET r == Settled(calls[c], IF o = "ok" /\ k = NoKey THEN "nokey" ELSE o) IN
        /\ vapidPublicKey' = KeyAfterFetch(o, k)
        /\ calls' = [calls EXCEPT ![c] =
                IF KeyFetchThrows(o, k) THEN NS_subscribe_catch(r)
                ELSE NS_subscribe_withKey(r, k)]
    /\ UNCHANGED <<impl, hasServiceWorker, hasPushManager, swRegistration,
                   isSubscribed, platformSub, lastInit>>

NS_subscribe_pm(c) ==
    /\ impl = "NotificationService"
    /\ UNCHANGED <<workerVars, apiVars, codecVars>>
    /\ Resumes(c, "sub_pm")
    /\ UNCHANGED solo
    /\ \E res \in PlatformOutcomes :
        LET r == Settled(calls[c], res) IN
        IF res = "ok"
        THEN /\ platformSub' = TRUE
             /\ calls' = [calls EXCEPT ![c] =
                    Issued(r, "POST subscribe", r.userId, "sub_post")]
        ELSE /\ calls' = [calls EXCEPT ![c] = NS_subscribe_catch(r)]
             /\ UNCHANGED platformSub
    /\ UNCHANGED <<impl, hasServiceWorker, hasPushManager, swRegistration,
                   isSubscribed, vapidPublicKey, lastInit>>

NS_subscribe_post(c) ==
    /\ impl = "NotificationService"
    /\ UNCHANGED <<workerVars, apiVars, codecVars>>
    /\ Resumes(c, "sub_post")
    /\ UNCHANGED solo
    /\ \E o \in BackendOutcomes :
        LET r == Settled(calls[c], o) IN
        IF AxiosRejects(o)
        THEN /\ calls' = [calls EXCEPT ![c] = NS_subscribe_catch(r)]
             /\ UNCHANGED isSubscribed
        ELSE /\ isSubscribed' = TRUE
             /\ calls' = [calls EXCEPT ![c] = Returned(Assigned(r, TRUE), "true")]
    /\ UNCHANGED <<impl, hasServiceWorker, hasPushManager, swRegistration,
                   vapidPublicKey, platformSub, lastInit>>

\* ----------------------------------- NotificationService.unsubscribe(userId)
\* catch (error) { console.error(...); return false; }
NS_unsubscribe_catch(r) == Returned(r, "false")

\* await apiService.delete(`/notifications/unsubscribe/${userId}`)
NS_unsubscribe_delete_skipped(r) == Returned(r, "false")

NS_unsubscribe_delete_issued(r) ==
    Issued(r, "DELETE unsubscribe", r.userId, "unsub_delete")

NS_unsubscribe(c, u) ==
    /\ impl = "NotificationService"
    /\ UNCHANGED <<workerVars, apiVars, codecVars>>
    /\ CanStart(c)
    /\ solo' = SoloAt(c)
    /\ LET r == Entered(c, "unsubscribe", u) IN
        calls' = Begin(c,
            IF swRegistration # Null
            THEN Issued(r, "pm.getSubscription", "-", "unsub_probe")
            ELSE NS_unsubscribe_delete_issued(r))
    /\ UNCHANGED <<impl, hasServiceWorker, hasPushManager, swRegistration,
                   isSubscribed, vapidPublicKey, platformSub, lastInit>>

NS_unsubscribe_probe(c) ==
    /\ impl = "NotificationService"
    /\ UNCHANGED <<workerVars, apiVars, codecVars>>
    /\ Resumes(c, "unsub_probe")
    /\ UNCHANGED solo
    /\ \E res \in PlatformOutcomes :
        LET r == Settled(calls[c],
                    IF res = "ok" /\ ~platformSub THEN "ok:null" ELSE res) IN
        calls' = [calls EXCEPT ![c] =
            IF res # "ok" THEN NS_unsubscribe_catch(r)
            ELSE IF platformSub THEN Issued(r, "sub.unsubscribe", "-", "unsub_revoke")
            ELSE NS_unsubscribe_delete_issued(r)]
    /\ UNCHANGED <<impl, hasServiceWorker, hasPushManager, swRegistration,
                   isSubscribed, vapidPublicKey, platformSub, lastInit>>

\* what follows `await subscription.unsubscribe()` once it settled with res
NS_unsubscribe_afterRevoke(r, res) ==
    IF res = "ok" THEN NS_unsubscribe_delete_issued(r)
    ELSE NS_unsubscribe_catch(r)

NS_unsubscribe_revoke(c) ==
    /\ impl = "NotificationService"
    /\ UNCHANGED <<workerVars, apiVars, codecVars>>
    /\ Resumes(c, "unsub_revoke")
    /\ UNCHANGED solo
    /\ \E res \in PlatformOutcomes :
        /\ platformSub' = IF res = "ok" THEN FALSE ELSE platformSub
        /\ calls' = [calls EXCEPT ![c] =
                NS_unsubscribe_afterRevoke(Settled(calls[c], res), res)]
    /\ UNCHANGED <<impl, hasServiceWorker, hasPushManager, swRegistration,
                   isSubscribed, vapidPublicKey, lastInit>>

NS_unsubscribe_delete(c) ==
    /\ impl = "NotificationService"
    /\ UNCHANGED <<workerVars, apiVars, codecVars>>
    /\ Resumes(c, "unsub_delete")
    /\ UNCHANGED solo
    /\ \E o \in BackendOutcomes :
        LET r == Settled(calls[c], o) IN
        IF AxiosRejects(o)
        THEN /\ calls' = [calls EXCEPT ![c] = NS_unsubscribe_catch(r)]
             /\ UNCHANGED isSubscribed
        ELSE /\ isSubscribed' = FALSE
             /\ calls' = [calls EXCEPT ![c] = Returned(Assigned(r, FALSE), "true")]
    /\ UNCHANGED <<impl, hasServiceWorker, hasPushManager, swRegistration,
                   vapidPublicKey, platformSub, lastInit>>

\* ------------------------- NotificationService: thin proxies to the backend
\* sendNotification: catch { return false }
NS_sendNotification_catch(r) == Returned(r, "false")

\* a record of counters, every field f carrying n, as the set of its entries
Counts(fields, n) == {<<f, n>> : f \in fields}

BulkFields == {"sent", "failed", "no_subscription"}

StatsFields ==
    {"total_sent", "total_failed", "total_no_subscription", "active_subscriptions"}

\* the counters a backend answer can carry in response.data.data
ServerCounts(fields) == {Counts(fields, 0), Counts(fields, 2)}

\* the method resolves with the record v
ReturnedRecord(r, label, v) == [Returned(r, label) EXCEPT !.value = v]

\* sendBulkNotification: catch { return {sent: 0, failed: 0, no_subscription: 0} }
NS_sendBulkNotification_catch_rethrown(r) == Returned(r, "throw")

NS_sendBulkNotification_catch(r) ==
    ReturnedRecord(r, "zeros", Counts(BulkFields, 0))

\* getStats: catch { return {total_sent: 0, total_failed: 0, ...} }
NS_getStats_catch(r) == ReturnedRecord(r, "zeros", Counts(StatsFields, 0))

ProxyOps == {"sendNotification", "sendBulkNotification", "getStats"}

ProxyRequest(o) ==
    CASE o = "sendNotification" -> "POST send"
      [] o = "sendBulkNotification" -> "POST send-bulk"
      [] o = "getStats" -> "GET stats"

ProxyCatch(r) ==
    CASE r.op = "sendNotification" -> NS_sendNotification_catch(r)
      [] r.op = "sendBulkNotification" -> NS_sendBulkNotification_catch(r)
      [] r.op = "getStats" -> NS_getStats_catch(r)

\* the fields of the record the proxy o resolves with
ProxyFields(o) ==
    CASE o = "sendNotification" -> {}
      [] o = "sendBulkNotification" -> BulkFields
      [] o = "getStats" -> StatsFields

\* return true / return response.data.data
ProxyResult(r, d) ==
    IF r.op = "sendNotification" THEN Returned(r, "true")
    ELSE ReturnedRecord(r, "data", d)

NS_proxy(c, o, u) ==
    /\ impl = "NotificationService"
    /\ UNCHANGED <<workerVars, apiVars, codecVars>>
    /\ CanStart(c)
    /\ solo' = SoloAt(c)
    /\ calls' = Begin(c, Issued(Entered(c, o, u), ProxyRequest(o), u, "proxy"))
    /\ UNCHANGED <<impl, hasServiceWorker, hasPushManager, swRegistration,
                   isSubscribed, vapidPublicKey, platformSub, lastInit>>

NS_proxy_response(c) ==
    /\ impl = "NotificationService"
    /\ UNCHANGED <<workerVars, apiVars, codecVars>>
    /\ Resumes(c, "proxy")
    /\ UNCHANGED solo
    /\ \E o \in BackendOutcomes, d \in ServerCounts(ProxyFields(calls[c].op)) :
        LET r == Settled(calls[c], o) IN
        calls' = [calls EXCEPT ![c] =
            IF AxiosRejects(o) THEN ProxyCatch(r) ELSE ProxyResult(r, d)]
    /\ UNCHANGED <<impl, hasServiceWorker, hasPushManager, swRegistration,
                   isSubscribed, vapidPublicKey, platformSub, lastInit>>

\* getSubscriptionStatus(): return this.isSubscribed
getSubscriptionStatus == isSubscribed

\* ------------------------------------------------ PushNotificationClient.init()
\* catch (error) { console.error(...); return false; }
PNC_init_catch(r) == Returned(r, "false")

\* !('serviceWorker' in navigator) || !('PushManager' in window) is false
PNC_supported == hasServiceWorker /\ hasPushManager

PNC_init(c) ==
    /\ impl = "PushNotificationClient"
    /\ UNCHANGED <<workerVars, apiVars, codecVars>>
    /\ CanStart(c)
    /\ solo' = SoloAt(c)
    /\ LET r == Entered(c, "initialize", "-") IN
        IF ~PNC_supported
        THEN /\ calls' = Begin(c, Returned(r, "false"))
             /\ lastInit' = "unsupported"
        ELSE /\ calls' = Begin(c, Issued(r, "sw.register", "/service-worker.js",
                                         "init_register"))
             /\ UNCHANGED lastInit
    /\ UNCHANGED <<impl, hasServiceWorker, hasPushManager, swRegistration,
                   isSubscribed, vapidPublicKey, platformSub>>

PNC_init_register(c) ==
    /\ impl = "PushNotificationClient"
    /\ UNCHANGED <<workerVars, apiVars, codecVars>>
    /\ Resumes(c, "init_register")
    /\ UNCHANGED solo
    /\ \E res \in PlatformOutcomes :
        LET r == Settled(calls[c], res) IN
        IF res = "ok"
        THEN /\ swRegistration' = Reg
             /\ calls' = [calls EXCEPT ![c] =
                    Issued(r, "pm.getSubscription", "-", "init_probe")]
             /\ UNCHANGED lastInit
        ELSE /\ calls' = [calls EXCEPT ![c] = PNC_init_catch(r)]
             /\ lastInit' = "error"
             /\ UNCHANGED swRegistration
    /\ UNCHANGED <<impl, hasServiceWorker, hasPushManager, isSubscribed,
                   vapidPublicKey, platformSub>>

PNC_init_probe(c) ==
    /\ impl = "PushNotificationClient"
    /\ UNCHANGED <<workerVars, apiVars, codecVars>>
    /\ Resumes(c, "init_probe")
    /\ UNCHANGED solo
    /\ \E res \in PlatformOutcomes :
        LET r == Settled(calls[c], res) IN
        IF res = "ok"
        THEN /\ isSubscribed' = platformSub
             /\ calls' = [calls EXCEPT ![c] =
                    Returned(Assigned(r, platformSub), "true")]
             /\ lastInit' = "ready"
        ELSE /\ calls' = [calls EXCEPT ![c] = PNC_init_catch(r)]
             /\ lastInit' = "error"
             /\ UNCHANGED isSubscribed
    /\ UNCHANGED <<impl, hasServiceWorker, hasPushManager, swRegistration,
                   vapidPublicKey, platformSub>>

\* ------------------------------------ PushNotificationClient.subscribeUser()
\* catch (error) { console.error(...); return false; }
PNC_subscribeUser_catch(r) == Returned(r, "false")

\* the POST settled with o: fetch resolves unless the network failed
PNC_subscribeUser_postThrows(o) == FetchRejects(o)

PNC_subscribeUser(c, u) ==
    /\ impl = "PushNotificationClient"
    /\ UNCHANGED <<workerVars, apiVars, codecVars>>
    /\ CanStart(c)
    /\ solo' = SoloAt(c)
    /\ calls' = Begin(c, Issued(Entered(c, "subscribe", u),
                                "GET vapid-key", "-", "sub_key"))
    /\ UNCHANGED <<impl, hasServiceWorker, hasPushManager, swRegistration,
                   isSubscribed, vapidPublicKey, platformSub, lastInit>>

PNC_subscribeUser_fetch(c) ==
    /\ impl = "PushNotificationClient"
    /\ UNCHANGED <<workerVars, apiVars, codecVars>>
    /\ Resumes(c, "sub_key")
    /\ UNCHANGED solo
    /\ \E o \in BackendOutcomes :
        LET r == Settled(calls[c], o) IN
        calls' = [calls EXCEPT ![c] =
            IF FetchRejects(o) THEN PNC_subscribeUser_catch(r)
            ELSE Issued(r, "response.json", o, "sub_json")]
    /\ UNCHANGED <<impl, hasServiceWorker, hasPushManager, swRegistration,
                   isSubscribed, vapidPublicKey, platformSub, lastInit>>

\* the bodies the awaited response can carry: a key, a JSON body without the
\* key, or a body that is not JSON; an error response carries no key
ResponseBodies(o) ==
    IF o = "ok" THEN VapidKeys \cup {NoKey, "unparsable"}
    ELSE {NoKey, "unparsable"}

PNC_subscribeUser_json(c) ==
    /\ impl = "PushNotificationClient"
    /\ UNCHANGED <<workerVars, apiVars, codecVars>>
    /\ Resumes(c, "sub_json")
    /\ UNCHANGED solo
    /\ \E k \in ResponseBodies(calls[c].log[Len(calls[c].log)].arg) :
        LET r == Settled(calls[c], IF k \in VapidKeys THEN "ok"
                                   ELSE IF k = NoKey THEN "nokey" ELSE "fail") IN
        calls' = [calls EXCEPT ![c] =
            IF k \notin VapidKeys \/ DecodeThrows(k) \/ swRegistration = Null
            THEN PNC_subscribeUser_catch(r)
            ELSE Issued(r, "pm.subscribe", k, "sub_pm")]
    /\ UNCHANGED <<impl, hasServiceWorker, hasPushManager, swRegistration,
                   isSubscribed, vapidPublicKey, platformSub, lastInit>>

PNC_subscribeUser_pm(c) ==
    /\ impl = "PushNotificationClient"
    /\ UNCHANGED <<workerVars, apiVars, codecVars>>
    /\ Resumes(c, "sub_pm")
    /\ UNCHANGED solo
    /\ \E res \in PlatformOutcomes :
        LET r == Settled(calls[c], res) IN
        IF res = "ok"
        THEN /\ platformSub' = TRUE
             /\ calls' = [calls EXCEPT ![c] =
                    Issued(r, "POST subscribe", r.userId, "sub_post")]
        ELSE /\ calls' = [calls EXCEPT ![c] = PNC_subscribeUser_catch(r)]
             /\ UNCHANGED platformSub
    /\ UNCHANGED <<impl, hasServiceWorker, hasPushManager, swRegistration,
                   isSubscribed, vapidPublicKey, lastInit>>

PNC_subscribeUser_post(c) ==
    /\ impl = "PushNotificationClient"
    /\ UNCHANGED <<workerVars, apiVars, codecVars>>
    /\ Resumes(c, "sub_post")
    /\ UNCHANGED solo
    /\ \E o \in BackendOutcomes :
        LET r == Settled(calls[c], o) IN
        IF PNC_subscribeUser_postThrows(o)
        THEN /\ calls' = [calls EXCEPT ![c] = PNC_subscribeUser_catch(r)]
             /\ UNCHANGED isSubscribed
        ELSE /\ isSubscribed' = TRUE
             /\ calls' = [calls EXCEPT ![c] = Returned(Assigned(r, TRUE), "true")]
    /\ UNCHANGED <<impl, hasServiceWorker, hasPushManager, swRegistration,
                   vapidPublicKey, platformSub, lastInit>>

\* ---------------------------------- PushNotificationClient.unsubscribeUser()
\* catch (error) { console.error(...); return false; }
PNC_unsubscribeUser_catch(r) == Returned(r, "false")

PNC_unsubscribeUser(c, u) ==
    /\ impl = "PushNotificationClient"
    /\ UNCHANGED <<workerVars, apiVars, codecVars>>
    /\ CanStart(c)
    /\ solo' = SoloAt(c)
    /\ LET r == Entered(c, "unsubscribe", u) IN
        calls' = Begin(c,
            IF swRegistration = Null THEN PNC_unsubscribeUser_catch(r)
            ELSE Issued(r, "pm.getSubscription", "-", "unsub_probe"))
    /\ UNCHANGED <<impl, hasServiceWorker, hasPushManager, swRegistration,
                   isSubscribed, vapidPublicKey, platformSub, lastInit>>

PNC_unsubscribeUser_probe(c) ==
    /\ impl = "PushNotificationClient"
    /\ UNCHANGED <<workerVars, apiVars, codecVars>>
    /\ Resumes(c, "unsub_probe")
    /\ UNCHANGED solo
    /\ \E res \in PlatformOutcomes :
        LET r == Settled(calls[c],
                    IF res = "ok" /\ ~platformSub THEN "ok:null" ELSE res) IN
        calls' = [calls EXCEPT ![c] =
            IF res # "ok" THEN PNC_unsubscribeUser_catch(r)
            ELSE IF platformSub THEN Issued(r, "sub.unsubscribe", "-", "unsub_revoke")
            ELSE Returned(r, "false")]
    /\ UNCHANGED <<impl, hasServiceWorker, hasPushManager, swRegistration,
                   isSubscribed, vapidPublicKey, platformSub, lastInit>>

PNC_unsubscribeUser_revoke(c) ==
    /\ impl = "PushNotificationClient"
    /\ UNCHANGED <<workerVars, apiVars, codecVars>>
    /\ Resumes(c, "unsub_revoke")
    /\ UNCHANGED solo
    /\ \E res \in PlatformOutcomes :
        LET r == Settled(calls[c], res) IN
        /\ platformSub' = IF res = "ok" THEN FALSE ELSE platformSub
        /\ calls' = [calls EXCEPT ![c] =
                IF res = "ok"
                THEN Issued(r, "DELETE unsubscribe", r.userId, "unsub_delete")
                ELSE PNC_unsubscribeUser_catch(r)]
    /\ UNCHANGED <<impl, hasServiceWorker, hasPushManager, swRegistration,
                   isSubscribed, vapidPublicKey, lastInit>>

PNC_unsubscribeUser_delete(c) ==
    /\ impl = "PushNotificationClient"
    /\ UNCHANGED <<workerVars, apiVars, codecVars>>
    /\ Resumes(c, "unsub_delete")
    /\ UNCHANGED solo
    /\ \E o \in BackendOutcomes :
        LET r == Settled(calls[c], o) IN
        IF FetchRejects(o)
        THEN /\ calls' = [calls EXCEPT ![c] = PNC_unsubscribeUser_catch(r)]
             /\ UNCHANGED isSubscribed
        ELSE /\ isSubscribed' = FALSE
             /\ calls' = [calls EXCEPT ![c] = Returned(Assigned(r, FALSE), "true")]
    /\ UNCHANGED <<impl, hasServiceWorker, hasPushManager, swRegistration,
                   vapidPublicKey, platformSub, lastInit>>

\* ------------------------------------------------------------------ callers
\* the caller's await resumes with the result; its slot is free again
Release(c) ==
    /\ calls[c].pc = "done"
    /\ UNCHANGED <<workerVars, apiVars, codecVars>>
    /\ calls' = [calls EXCEPT ![c] = Idle]
    /\ solo' = IF solo.call = c THEN NoSolo ELSE solo
    /\ UNCHANGED <<impl, hasServiceWorker, hasPushManager, swRegistration,
                   isSubscribed, vapidPublicKey, platformSub, lastInit>>

Next ==
    \E c \in Calls :
        \/ NS_initialize(c)
        \/ NS_initialize_register(c)
        \/ NS_initialize_probe(c)
        \/ NS_initialize_key(c)
        \/ \E u \in UserIds : NS_subscribe(c, u)
        \/ NS_subscribe_key(c)
        \/ NS_subscribe_pm(c)
        \/ NS_subscribe_post(c)
        \/ \E u \in UserIds : NS_unsubscribe(c, u)
        \/ NS_unsubscribe_probe(c)
        \/ NS_unsubscribe_revoke(c)
        \/ NS_unsubscribe_delete(c)
        \/ \E o \in ProxyOps : NS_proxy(c, o, "-")
        \/ NS_proxy_response(c)
        \/ PNC_init(c)
        \/ PNC_init_register(c)
        \/ PNC_init_probe(c)
        \/ \E u \in UserIds : PNC_subscribeUser(c, u)
        \/ PNC_subscribeUser_fetch(c)
        \/ PNC_subscribeUser_json(c)
        \/ PNC_subscribeUser_pm(c)
        \/ PNC_subscribeUser_post(c)
        \/ \E u \in UserIds : PNC_unsubscribeUser(c, u)
        \/ PNC_unsubscribeUser_probe(c)
        \/ PNC_unsubscribeUser_revoke(c)
        \/ PNC_unsubscribeUser_delete(c)
        \/ Release(c)

Spec == Init /\ [][Next]_vars

\* ========================================================= service workers
\* Two worker scripts exist in the repository:
\*   "messaging"  the page-registered worker, which answers a click by
\*                focusing or opening a page and posting a message to it
\*   "callback"   static/js/service-worker.js, which answers a click by
\*                calling the backend itself
\* The browser dispatches one event at a time to whichever script is
\* installed; a handler advances from one settled promise to the next.
Variants == {"messaging", "callback"}

\* how many fields one inbound push payload supplies at most
MaxSupplied == 2
\* how many window clients clients.matchAll() resolves with at most
MaxClients == 2

\* a property read that finds nothing; a string where the platform needs one
Undefined == "undefined"

\* the values of this model that JavaScript treats as false in a || b
Falsy == {Undefined, "", Null, "false", "0"}

\* a || b
Or(a, b) == IF a \in Falsy THEN b ELSE a

\* ---------------------------------------------------------- push payloads
PushFields ==
    {"title", "message", "body", "icon", "badge", "image", "category", "tag",
     "payload", "data", "actions", "requireInteraction"}

\* what the server can put into one field of the JSON body
Supplied(f) ==
    CASE f = "title" -> {"", "Server title"}
      [] f = "message" -> {"", "Server message"}
      [] f = "body" -> {"", "Server body"}
      [] f = "icon" -> {"", "/srv/icon.png"}
      [] f = "badge" -> {"", "/srv/badge.png"}
      [] f = "image" -> {"", "/srv/image.png"}
      [] f = "category" -> {"", "srv-category"}
      [] f = "tag" -> {"", "srv-tag"}
      [] f = "payload" -> {Null, "{srv-payload}"}
      [] f = "data" -> {Null, "{srv-data}"}
      [] f = "actions" -> {"[]", "[open,later]", "[open,open]"}
      [] f = "requireInteraction" -> {"true", "false", "0"}

\* the entries' action strings of an actions array
ActionList(a) ==
    CASE a = "[open,later]" -> <<"open", "later">>
      [] a = "[open,open]" -> <<"open", "open">>
      [] a = "[view,dismiss]" -> <<"view", "dismiss">>
      [] a = "[confirm,reject,details]" -> <<"confirm", "reject", "details">>
      [] OTHER -> <<>>

AllSupplied == UNION {Supplied(f) : f \in PushFields}

NoPayload == [f \in PushFields |-> Undefined]

\* the parsed bodies: at most MaxSupplied fields supplied, the others absent
Payloads ==
    UNION {
        {[f \in PushFields |-> IF f \in S THEN q[f] ELSE Undefined] :
            q \in {x \in [S -> AllSupplied] : \A f \in S : x[f] \in Supplied(f)}} :
        S \in {T \in SUBSET PushFields : Cardinality(T) <= MaxSupplied}}

\* event.data: absent, text that is not JSON, or a JSON object
PushBodies == {"none", "malformed", "json"}

\* -------------------------------------------------------- platform calls
NoSpec == [title |-> Undefined]
NoMsg == [type |-> "none"]

\* one call the handler made on the platform: the client it was made on
\* (0: none), its string argument, the display spec or the message it passed
Effect(call, client, arg, spec, msg) ==
    [call |-> call, client |-> client, arg |-> arg, spec |-> spec, msg |-> msg]

Made(call) == SelectSeq(swEffects, LAMBDA e : e.call = call)

NoHandler ==
    [variant |-> "none", kind |-> "none", pc |-> "idle", threw |-> FALSE,
     settled |-> "-", extended |-> FALSE]
NoEvent == [kind |-> "none"]

\* a handler that has returned with its pending promise, if any, passed to
\* event.waitUntil
Handler(variant, kind, pc) ==
    [variant |-> variant, kind |-> kind, pc |-> pc, threw |-> FALSE,
     settled |-> "-", extended |-> pc # "done"]

\* a handler that has returned with a pending promise it passed to no
\* event.waitUntil
Unextended(variant, kind, pc) ==
    [Handler(variant, kind, pc) EXCEPT !.extended = FALSE]

\* the handler is past its last step; res is how its last promise settled
Finished(res) == [swHandler EXCEPT !.pc = "done", !.settled = res]

PushEvent(body, p) ==
    [kind |-> "push", body |-> body, payload |-> p]

\* ---------------------------------------- messaging worker: push handler
\* let notificationData = { title: ..., body: ..., ..., data: {} }
\* (the Russian title and body are written in Latin letters)
SWA_notificationData ==
    [title |-> "Novoe uvedomlenie",
     body |-> "U vas est novoe uvedomlenie",
     icon |-> "/favicon.ico",
     badge |-> "/favicon.ico",
     tag |-> "notification",
     requireInteraction |-> "true",
     actions |-> "[view,dismiss]",
     data |-> "{}"]

\* requireInteraction: pushData.requireInteraction !== false
SWA_requireInteraction(p) ==
    IF p.requireInteraction # "false" THEN "true" ELSE "false"

\* notificationData = { ...notificationData, title: pushData.title || ..., }
SWA_override(p) ==
    [title |-> Or(p.title, SWA_notificationData.title),
     body |-> Or(p.message, Or(p.body, SWA_notificationData.body)),
     icon |-> Or(p.icon, SWA_notificationData.icon),
     badge |-> Or(p.badge, SWA_notificationData.badge),
     tag |-> Or(p.category, Or(p.tag, SWA_notificationData.tag)),
     data |-> Or(p.payload, Or(p.data, "{}")),
     actions |-> Or(p.actions, SWA_notificationData.actions),
     requireInteraction |-> SWA_requireInteraction(p)]

\* the title and options passed to showNotification; no image is passed
SWA_displaySpec(d) ==
    [title |-> d.title, body |-> d.body, icon |-> d.icon, badge |-> d.badge,
     image |-> Undefined, tag |-> d.tag, data |-> d.data,
     actions |-> d.actions, requireInteraction |-> d.requireInteraction]

\* if (event.data) { try { ...json()... } catch { console.error } }
SWA_parsed(body, p) ==
    IF body = "json" THEN SWA_override(p) ELSE SWA_notificationData

SWA_push(body, p) ==
    /\ swHandler.pc = "idle"
    /\ body = "json" \/ p = NoPayload
    /\ swEvent' = PushEvent(body, p)
    /\ swEffects' = <<Effect("showNotification", 0, "-",
                             SWA_displaySpec(SWA_parsed(body, p)), NoMsg)>>
    /\ swHandler' = Handler("messaging", "push", "show")
    /\ UNCHANGED <<managerVars, apiVars, codecVars>>

\* ----------------------------------------- callback worker: push handler
\* const options = { body: data.message, icon: data.icon || '...', ... }
SWB_displaySpec(p) ==
    [title |-> p.title, body |-> p.message,
     icon |-> Or(p.icon, "/static/notification-icon.png"),
     badge |-> Or(p.badge, "/static/badge-icon.png"),
     image |-> p.image, tag |-> Undefined, data |-> p.data,
     actions |-> Or(p.actions, "[confirm,reject,details]"),
     requireInteraction |-> "true"]

SWB_push(body, p) ==
    /\ swHandler.pc = "idle"
    /\ body = "json" \/ p = NoPayload
    /\ swEvent' = PushEvent(body, p)
    /\ IF body = "none"
       THEN /\ swEffects' = <<>>
            /\ swHandler' = [Handler("callback", "push", "done")
                                EXCEPT !.settled = "none"]
       ELSE IF body = "malformed"
       THEN /\ swEffects' = <<>>
            /\ swHandler' = [Handler("callback", "push", "done")
                                EXCEPT !.threw = TRUE]
       ELSE /\ swEffects' = <<Effect("showNotification", 0, "-",
                                     SWB_displaySpec(p), NoMsg)>>
            /\ swHandler' = Handler("callback", "push", "show")
    /\ UNCHANGED <<managerVars, apiVars, codecVars>>

\* event.waitUntil(showNotification(...)): the promise settles
SW_push_shown ==
    /\ swHandler.kind = "push" /\ swHandler.pc = "show"
    /\ \E res \in PlatformOutcomes : swHandler' = Finished(res)
    /\ UNCHANGED <<swEvent, swEffects, managerVars, apiVars, codecVars>>

\* ------------------------------------------------------- notification clicks
\* event.action: '' for a click on the notification body, else the button
ClickActions ==
    {"", "dismiss", "view", "confirm", "reject", "details", "open"}

\* notification.data: null, or an object with these properties
NullData ==
    [isNull |-> TRUE, url |-> Undefined, viewUrl |-> Undefined,
     category |-> Undefined, payload |-> Undefined]
EmptyData == [NullData EXCEPT !.isNull = FALSE]
ClickData ==
    {NullData} \cup
    [isNull : {FALSE}, url : {Undefined, "", "/data-url"},
     viewUrl : {Undefined, "/view-url"}, category : {Undefined, "task"},
     payload : {Undefined, "{}", "{url}"}]

\* data.payload.url
PayloadUrl(d) == IF d.payload = "{url}" THEN "/payload-url" ELSE Undefined

\* the clicked notification's title, body and tag
Notifications ==
    {[title |-> "t1", body |-> "b1", tag |-> "g1"],
     [title |-> "t2", body |-> "b2", tag |-> "g2"]}

\* the window clients matchAll resolves with, in its order; TRUE for a
\* client whose url contains self.location.origin
ClientLists == UNION {[1..n -> BOOLEAN] : n \in 0..MaxClients}

\* self.location.origin
Origin == "https://portal.example"

ClickEvent(action, data, notification, clientList) ==
    [kind |-> "click", action |-> action, data |-> data,
     notification |-> notification, clients |-> clientList]

\* --------------------------------------- messaging worker: click handler
\* if (action === 'dismiss') { ...; return; }
SWA_dismiss_view == "view"
SWA_dismiss == "dismiss"

\* const data = notification.data || {}
SWA_data(d) == IF d.isNull THEN EmptyData ELSE d

\* { type: 'NOTIFICATION_CLICK', action, data, notification: {title, body, tag} }
SWA_message(ev) ==
    [type |-> "NOTIFICATION_CLICK", action |-> ev.action,
     data |-> SWA_data(ev.data), notification |-> ev.notification]

\* the first i with clientList[i].url.includes(origin) && 'focus' in client
SWA_firstClient(clientList) ==
    IF \E i \in DOMAIN clientList : clientList[i]
    THEN CHOOSE i \in DOMAIN clientList :
            clientList[i] /\ \A j \in 1..(i - 1) : ~clientList[j]
    ELSE 0

\* let urlToOpen = origin; if (data.url) ...; else if (action === 'view' && data.viewUrl) ...
SWA_urlToOpen_viewFirst(action, d) ==
    IF action = "view" /\ d.viewUrl \notin Falsy THEN d.viewUrl
    ELSE IF d.url \notin Falsy THEN d.url
    ELSE Origin
SWA_urlToOpen(action, d) ==
    IF d.url \notin Falsy THEN d.url
    ELSE IF action = "view" /\ d.viewUrl \notin Falsy THEN d.viewUrl
    ELSE Origin

\* notification.close() comes before the dismiss test and the promise chain
SWA_closeFirst_last(rest) ==
    rest \o <<Effect("notification.close", 0, "-", NoSpec, NoMsg)>>
SWA_closeFirst(rest) ==
    <<Effect("notification.close", 0, "-", NoSpec, NoMsg)>> \o rest

SWA_notificationclick(action, data, notification, clientList) ==
    /\ swHandler.pc = "idle"
    /\ swEvent' = ClickEvent(action, data, notification, clientList)
    /\ IF action = SWA_dismiss
       THEN /\ swEffects' = SWA_closeFirst(<<>>)
            /\ swHandler' = Handler("messaging", "click", "done")
       ELSE /\ swEffects' = SWA_closeFirst(
                    <<Effect("clients.matchAll", 0, "window", NoSpec, NoMsg)>>)
            /\ swHandler' = Handler("messaging", "click", "matchAll")
    /\ UNCHANGED <<managerVars, apiVars, codecVars>>

\* .then((clientList) => { for (...) return client.focus()...; return clients.openWindow(urlToOpen)... })
SWA_matchAll_then ==
    /\ swHandler.variant = "messaging" /\ swHandler.pc = "matchAll"
    /\ LET i == SWA_firstClient(swEvent.clients) IN
        IF i # 0
        THEN /\ swEffects' = Append(swEffects,
                    Effect("client.focus", i, "-", NoSpec, NoMsg))
             /\ swHandler' = [swHandler EXCEPT !.pc = "focus"]
        ELSE /\ swEffects' = Append(swEffects,
                    Effect("clients.openWindow", 0,
                           SWA_urlToOpen(swEvent.action, SWA_data(swEvent.data)),
                           NoSpec, NoMsg))
             /\ swHandler' = [swHandler EXCEPT !.pc = "openWindow"]
    /\ UNCHANGED <<swEvent, managerVars, apiVars, codecVars>>

\* client.focus().then(() => client.postMessage({...})); a rejected focus()
\* skips the callback
SWA_focus_then ==
    /\ swHandler.variant = "messaging" /\ swHandler.pc = "focus"
    /\ \E res \in PlatformOutcomes :
        /\ swHandler' = Finished(res)
        /\ swEffects' =
            IF res = "ok"
            THEN Append(swEffects,
                    Effect("client.postMessage", SWA_firstClient(swEvent.clients),
                           "-", NoSpec, SWA_message(swEvent)))
            ELSE swEffects
    /\ UNCHANGED <<swEvent, managerVars, apiVars, codecVars>>

\* how clients.openWindow settles: with the new client, with null, rejected
OpenOutcomes == {"client", "null", "fail"}

\* the client that openWindow resolved with
NewClient(clientList) == Len(clientList) + 1

\* clients.openWindow(urlToOpen).then((client) => { if (client) return client.postMessage({...}) })
SWA_openWindow_then ==
    /\ swHandler.variant = "messaging" /\ swHandler.pc = "openWindow"
    /\ \E res \in OpenOutcomes :
        /\ swHandler' = Finished(res)
        /\ swEffects' =
            IF res = "client"
            THEN Append(swEffects,
                    Effect("client.postMessage", NewClient(swEvent.clients),
                           "-", NoSpec, SWA_message(swEvent)))
            ELSE swEffects
    /\ UNCHANGED <<swEvent, managerVars, apiVars, codecVars>>

\* ---------------------------------------- callback worker: click handler
\* body: JSON.stringify({ action: action, category: data.category, payload: data.payload })
SWB_actionBody(action, d) ==
    [action |-> action, category |-> d.category, payload |-> d.payload]

\* the actions that call handleNotificationAction
SWB_posting_withDetails == {"confirm", "reject", "details"}
SWB_posting == {"confirm", "reject"}

\* handleNotificationAction up to its first await: reading data.category of
\* a null data throws inside the try, before fetch is called
SWB_handleNotificationAction(action, d) ==
    IF d.isNull
    THEN /\ swEffects' = <<Effect("notification.close", 0, "-", NoSpec, NoMsg)>>
         /\ swHandler' = [Handler("callback", "click", "done")
                            EXCEPT !.settled = "caught"]
    ELSE /\ swEffects' = <<Effect("notification.close", 0, "-", NoSpec, NoMsg),
                           Effect("fetch", 0, "POST /api/v1/notifications/action",
                                  NoSpec, SWB_actionBody(action, d))>>
         /\ swHandler' = Unextended("callback", "click", "fetch")

SWB_notificationclick(action, data, notification) ==
    /\ swHandler.pc = "idle"
    /\ swEvent' = ClickEvent(action, data, notification, <<>>)
    /\ IF action \in SWB_posting
       THEN SWB_handleNotificationAction(action, data)
       ELSE IF action = "details" /\ ~data.isNull /\ PayloadUrl(data) \notin Falsy
       THEN /\ swEffects' = <<Effect("notification.close", 0, "-", NoSpec, NoMsg),
                              Effect("clients.openWindow", 0, PayloadUrl(data),
                                     NoSpec, NoMsg)>>
            /\ swHandler' = Handler("callback", "click", "details")
       ELSE /\ swEffects' = <<Effect("notification.close", 0, "-", NoSpec, NoMsg)>>
            /\ swHandler' = Handler("callback", "click", "done")
    /\ UNCHANGED <<managerVars, apiVars, codecVars>>

\* event.waitUntil(clients.openWindow(payload.url)): the promise settles
SWB_details_opened ==
    /\ swHandler.variant = "callback" /\ swHandler.pc = "details"
    /\ \E res \in OpenOutcomes : swHandler' = Finished(res)
    /\ UNCHANGED <<swEvent, swEffects, managerVars, apiVars, codecVars>>

\* const response = await fetch(...); if (!response.ok) throw ...
SWB_fetch_settled ==
    /\ swHandler.variant = "callback" /\ swHandler.pc = "fetch"
    /\ \E o \in BackendOutcomes :
        swHandler' = IF o = "ok" THEN [swHandler EXCEPT !.pc = "json"]
                     ELSE Finished("caught")
    /\ UNCHANGED <<swEvent, swEffects, managerVars, apiVars, codecVars>>

\* what the backend's answer carries in result.data.redirect_url
Redirects == {Undefined, "/redirect-url"}

\* const result = await response.json(); if (result.data && result.data.redirect_url) await clients.openWindow(...)
SWB_json_settled ==
    /\ swHandler.variant = "callback" /\ swHandler.pc = "json"
    /\ \/ /\ swHandler' = Finished("caught")
          /\ UNCHANGED swEffects
       \/ \E u \in Redirects :
            IF u \in Falsy
            THEN /\ swHandler' = Finished("ok")
                 /\ UNCHANGED swEffects
            ELSE /\ swHandler' = [swHandler EXCEPT !.pc = "redirect"]
                 /\ swEffects' = Append(swEffects,
                        Effect("clients.openWindow", 0, u, NoSpec, NoMsg))
    /\ UNCHANGED <<swEvent, managerVars, apiVars, codecVars>>

\* await clients.openWindow(result.data.redirect_url) settles
SWB_redirect_opened ==
    /\ swHandler.variant = "callback" /\ swHandler.pc = "redirect"
    /\ \E res \in OpenOutcomes :
        swHandler' = Finished(IF res = "fail" THEN "caught" ELSE res)
    /\ UNCHANGED <<swEvent, swEffects, managerVars, apiVars, codecVars>>

\* ------------------------------- messaging worker: notificationclose
\* data.trackClose
TrackClose == BOOLEAN

CloseEvent(trackClose, notification) ==
    [kind |-> "close", trackClose |-> trackClose, notification |-> notification]

\* if (data.trackClose) { fetch('/api/v1/notifications/track-close', ...).catch(...) }
\* the promise is passed to no event.waitUntil
SWA_notificationclose(trackClose, notification) ==
    /\ swHandler.pc = "idle"
    /\ swEvent' = CloseEvent(trackClose, notification)
    /\ IF trackClose
       THEN /\ swEffects' = <<Effect("fetch", 0,
                                     "POST /api/v1/notifications/track-close",
                                     NoSpec, [tag |-> notification.tag])>>
            /\ swHandler' = Unextended("messaging", "close", "track")
       ELSE /\ swEffects' = <<>>
            /\ swHandler' = Handler("messaging", "close", "done")
    /\ UNCHANGED <<managerVars, apiVars, codecVars>>

\* the track-close request settles; .catch(error => console.error(...))
SWA_track_settled ==
    /\ swHandler.variant = "messaging" /\ swHandler.pc = "track"
    /\ \E o \in BackendOutcomes :
        swHandler' = Finished(IF FetchRejects(o) THEN "fetch rejected" ELSE o)
    /\ UNCHANGED <<swEvent, swEffects, managerVars, apiVars, codecVars>>

\* ----------------------------- messaging worker: pushsubscriptionchange
\* event.oldSubscription: null, one without options.applicationServerKey,
\* one with it
OldSubscriptions == {Null, "old", "old+key"}

\* event.oldSubscription?.options?.applicationServerKey
SWA_oldKey(old) == IF old = "old+key" THEN "old-key" ELSE Undefined

SubscriptionChange(old) == [kind |-> "subchange", oldSubscription |-> old]

\* self.registration.pushManager.subscribe({userVisibleOnly: true, applicationServerKey: ...})
SWA_pushsubscriptionchange(old) ==
    /\ swHandler.pc = "idle"
    /\ swEvent' = SubscriptionChange(old)
    /\ swEffects' = <<Effect("pushManager.subscribe", 0, SWA_oldKey(old), NoSpec,
                             [userVisibleOnly |-> TRUE])>>
    /\ swHandler' = Handler("messaging", "subchange", "resubscribe")
    /\ UNCHANGED <<managerVars, apiVars, codecVars>>

\* .then((newSubscription) => fetch(...)) runs when subscribe() resolved
SWA_updateAfter_always(res) == TRUE
SWA_updateAfter(res) == res = "ok"

\* subscribe() settles: .then(newSubscription => fetch('/api/v1/notifications/update-subscription', ...))
\* or, rejected, .catch(error => console.error(...))
SWA_resubscribe_then ==
    /\ swHandler.variant = "messaging" /\ swHandler.pc = "resubscribe"
    /\ \E res \in PlatformOutcomes :
        /\ swEffects' =
            IF SWA_updateAfter(res)
            THEN Append(swEffects,
                    Effect("fetch", 0,
                           "POST /api/v1/notifications/update-subscription", NoSpec,
                           [oldSubscription |-> swEvent.oldSubscription,
                            newSubscription |->
                                IF res = "ok" THEN "new" ELSE Undefined]))
            ELSE swEffects
        /\ swHandler' =
            IF SWA_updateAfter(res) THEN [swHandler EXCEPT !.pc = "update"]
            ELSE Finished("subscribe rejected")
    /\ UNCHANGED <<swEvent, managerVars, apiVars, codecVars>>

\* the update request settles; a rejection ends in the chain's catch
SWA_update_settled ==
    /\ swHandler.variant = "messaging" /\ swHandler.pc = "update"
    /\ \E o \in BackendOutcomes :
        swHandler' = Finished(IF FetchRejects(o) THEN "fetch rejected" ELSE o)
    /\ UNCHANGED <<swEvent, swEffects, managerVars, apiVars, codecVars>>

\* ------------------------------------------------------ worker lifetime
\* the runtime may stop the worker once a handler has returned and no
\* lifetime extension is pending; what the handler had started is cut off
SW_terminated ==
    /\ swHandler.pc \notin {"idle", "done"}
    /\ ~swHandler.extended
    /\ swHandler' = Finished("cut")
    /\ UNCHANGED <<swEvent, swEffects, managerVars, apiVars, codecVars>>

\* the event's lifetime ends; the worker waits for the next event
SW_finish ==
    /\ swHandler.pc = "done"
    /\ swHandler' = NoHandler
    /\ swEvent' = NoEvent
    /\ swEffects' = <<>>
    /\ UNCHANGED <<managerVars, apiVars, codecVars>>

NextSW ==
    \/ \E p \in Payloads, body \in PushBodies : SWA_push(body, p)
    \/ \E p \in Payloads, body \in PushBodies : SWB_push(body, p)
    \/ SW_push_shown
    \/ \E action \in ClickActions, data \in ClickData,
          notification \in Notifications, clientList \in ClientLists :
            SWA_notificationclick(action, data, notification, clientList)
    \/ SWA_matchAll_then
    \/ SWA_focus_then
    \/ SWA_openWindow_then
    \/ \E action \in ClickActions, data \in ClickData,
          notification \in Notifications :
            SWB_notificationclick(action, data, notification)
    \/ SWB_details_opened
    \/ SWB_fetch_settled
    \/ SWB_json_settled
    \/ SWB_redirect_opened
    \/ \E trackClose \in TrackClose, notification \in Notifications :
            SWA_notificationclose(trackClose, notification)
    \/ SWA_track_settled
    \/ \E old \in OldSubscriptions : SWA_pushsubscriptionchange(old)
    \/ SWA_resubscribe_then
    \/ SWA_update_settled
    \/ SW_terminated
    \/ SW_finish

\* a worker receives events where the browser supports workers and push and
\* the page has subscribed it; the handlers read nothing of the page's manager
InitSW ==
    /\ Init
    /\ hasServiceWorker /\ hasPushManager /\ platformSub

SpecSW == InitSW /\ [][NextSW]_vars

\* ============================================================== ApiService
\* The axios instance of ApiService with its response interceptor.  A request
\* is sent, answered, and on a 401 handled by the interceptor; the token
\* refresh is a request of the same instance.
\*   state of a request: "idle", "inflight", "refreshing" (its handler awaits
\*   the refresh it started), "queued" (its callback is in refreshSubscribers),
\*   "resolved", "rejected"

\* the HTTP status of an answer; 500 stands for every failure that is not 401
Statuses == {200, 401, 500}

\* the callbacks in refreshSubscribers: of a request, of a refresh request
RequestCallback(r) == [kind |-> "request", id |-> r]
RefreshCallback(k) == [kind |-> "refresh", id |-> k]

\* the access token the k-th refresh delivers
NewToken(k) == k

\* the request interceptor puts the stored access token into the header
Sent(q) ==
    [q EXCEPT !.state = "inflight", !.sends = @ + 1,
              !.token = localStorage.access]

\* the same, with the storage as the refresh handler has just written it
Resent(q, token) ==
    [q EXCEPT !.state = "inflight", !.sends = @ + 1, !.token = token]

Answered(q, status) == [q EXCEPT !.answers = @ + 1, !.status = status]

\* apiService.get/post/put/delete(...)
Api_request(r) ==
    /\ requests[r].state = "idle"
    /\ location = "/"
    /\ requests' = [requests EXCEPT ![r] = Sent(@)]
    /\ UNCHANGED <<isRefreshing, refreshSubscribers, refreshes, localStorage,
                   location, managerVars, workerVars, codecVars>>

\* this.isRefreshing = true, before the refresh request is made
Api_refreshingOnStart_unset == isRefreshing
Api_refreshingOnStart == TRUE

\* error.response?.status === 401 && !originalRequest?._retry
Api_intercepts(q, status) == status = 401 /\ ~q.retry

\* the answer to request r arrives: (response) => response, or the error
\* handler up to its first await
Api_response(r, status) ==
    /\ requests[r].state = "inflight"
    /\ LET q == Answered(requests[r], status) IN
        IF status = 200
        THEN /\ requests' = [requests EXCEPT ![r] =
                    [q EXCEPT !.state = "resolved"]]
             /\ UNCHANGED <<isRefreshing, refreshSubscribers, refreshes>>
        ELSE IF ~Api_intercepts(q, status)
        THEN /\ requests' = [requests EXCEPT ![r] =
                    [q EXCEPT !.state = "rejected", !.error = "response"]]
             /\ UNCHANGED <<isRefreshing, refreshSubscribers, refreshes>>
        ELSE IF isRefreshing
        THEN /\ requests' = [requests EXCEPT ![r] =
                    [q EXCEPT !.state = "queued"]]
             /\ refreshSubscribers' =
                    Append(refreshSubscribers, RequestCallback(r))
             /\ UNCHANGED <<isRefreshing, refreshes>>
        ELSE /\ requests' = [requests EXCEPT ![r] =
                    [q EXCEPT !.state = "refreshing", !.retry = TRUE]]
             /\ isRefreshing' = Api_refreshingOnStart
             /\ refreshes' = Append(refreshes,
                    [by |-> r, bySend |-> q.sends, state |-> "inflight",
                     status |-> 0])
             /\ UNCHANGED refreshSubscribers
    /\ UNCHANGED <<localStorage, location, managerVars, workerVars, codecVars>>

\* the requests whose callbacks are in refreshSubscribers
QueuedRequests ==
    {refreshSubscribers[i].id : i \in
        {j \in DOMAIN refreshSubscribers :
            refreshSubscribers[j].kind = "request"}}

\* the refresh requests whose callbacks are in refreshSubscribers
QueuedRefreshes ==
    {refreshSubscribers[i].id : i \in
        {j \in DOMAIN refreshSubscribers :
            refreshSubscribers[j].kind = "refresh"}}

\* localStorage.setItem(ACCESS, accessToken); every queued callback and then
\* the original request are sent again; refreshSubscribers = []; finally
Api_refresh_succeeded(k) ==
    /\ localStorage' = [localStorage EXCEPT !.access = NewToken(k)]
    /\ requests' = [r \in Reqs |->
            IF r \in QueuedRequests \/ r = refreshes[k].by
            THEN Resent(requests[r], NewToken(k))
            ELSE requests[r]]
    /\ refreshes' = [j \in DOMAIN refreshes |->
            IF j = k THEN [refreshes[j] EXCEPT !.state = "ok", !.status = 200]
            ELSE IF j \in QueuedRefreshes
            THEN [refreshes[j] EXCEPT !.state = "inflight"]
            ELSE refreshes[j]]
    /\ refreshSubscribers' = <<>>
    /\ isRefreshing' = FALSE
    /\ UNCHANGED location

\* catch (refreshError): both tokens removed, the page sent to /login, the
\* original request rejected with the refresh error; finally
Api_refresh_failed(k, status) ==
    /\ localStorage' = [access |-> NoToken, refresh |-> FALSE]
    /\ location' = "/login"
    /\ requests' = [requests EXCEPT ![refreshes[k].by] =
            [@ EXCEPT !.state = "rejected", !.error = "refresh"]]
    /\ refreshes' = [refreshes EXCEPT ![k] =
            [@ EXCEPT !.state = "failed", !.status = status]]
    /\ isRefreshing' = FALSE
    /\ UNCHANGED refreshSubscribers

\* the refresh request is a request of the same instance: its 401 enters the
\* same error handler, finds isRefreshing set by the handler that awaits it,
\* and queues a callback; the promise that handler awaits stays pending
Api_refresh_intercepted(k) ==
    /\ refreshes' = [refreshes EXCEPT ![k] =
            [@ EXCEPT !.state = "queued", !.status = 401]]
    /\ refreshSubscribers' = Append(refreshSubscribers, RefreshCallback(k))
    /\ UNCHANGED <<requests, isRefreshing, localStorage, location>>

\* the answer to the k-th refresh request arrives and the handler that
\* awaits it resumes
Api_refresh_response(k, status) ==
    /\ k \in DOMAIN refreshes
    /\ refreshes[k].state = "inflight"
    /\ IF status = 200 THEN Api_refresh_succeeded(k)
       ELSE IF status = 401 THEN Api_refresh_intercepted(k)
       ELSE Api_refresh_failed(k, status)
    /\ UNCHANGED <<managerVars, workerVars, codecVars>>

NextApi ==
    \/ \E r \in Reqs : Api_request(r)
    \/ \E r \in Reqs, status \in Statuses : Api_response(r, status)
    \/ \E k \in Reqs, status \in Statuses : Api_refresh_response(k, status)

\* the page of a logged-in user on a browser that supports push
InitApiPage ==
    /\ Init
    /\ hasServiceWorker /\ hasPushManager /\ ~platformSub

SpecApi == InitApiPage /\ [][NextApi]_vars

\* every request in flight is answered in the end (by the server or by the
\* HTTP client's failure)
FairApi ==
    /\ \A r \in Reqs : WF_vars(\E status \in Statuses : Api_response(r, status))
    /\ \A k \in Reqs :
        WF_vars(\E status \in Statuses : Api_refresh_response(k, status))

SpecApiLive == SpecApi /\ FairApi

\* =============================================================== key codec
\* urlB64ToUint8Array of both managers, on strings over a few characters of
\* the base64url alphabet and one character outside it
CodecChars == {"A", "B", "Q", "-", "_", "*"}

CodecInputs == UNION {[1..n -> CodecChars] : n \in 0..MaxLen}

\* '='.repeat((4 - base64String.length % 4) % 4)
Padding(s) == [i \in 1..((4 - (Len(s) % 4)) % 4) |-> "="]

\* s.replace(/from/g, to)
ReplaceAll(s, from, to) ==
    [i \in DOMAIN s |-> IF s[i] = from THEN to ELSE s[i]]

\* the value of a character in the alphabet window.atob accepts, -1 outside
AtobValue(ch) ==
    CASE ch = "A" -> 0
      [] ch = "B" -> 1
      [] ch = "Q" -> 16
      [] ch = "+" -> 62
      [] ch = "/" -> 63
      [] OTHER -> -1

\* atob drops one or two trailing '=' of an input whose length is a
\* multiple of four
AtobStripped(b) ==
    IF Len(b) > 0 /\ Len(b) % 4 = 0 /\ b[Len(b)] = "="
    THEN IF b[Len(b) - 1] = "=" THEN SubSeq(b, 1, Len(b) - 2)
         ELSE SubSeq(b, 1, Len(b) - 1)
    ELSE b

\* the bytes of the characters d: three per four characters, then one for
\* two left over characters and two for three, the spare bits dropped
RECURSIVE AtobBytes(_)
AtobBytes(d) ==
    IF Len(d) = 0 THEN <<>>
    ELSE IF Len(d) >= 4
    THEN LET n == AtobValue(d[1]) * 262144 + AtobValue(d[2]) * 4096
                  + AtobValue(d[3]) * 64 + AtobValue(d[4]) IN
         <<n \div 65536, (n \div 256) % 256, n % 256>>
            \o AtobBytes(SubSeq(d, 5, Len(d)))
    ELSE IF Len(d) = 3
    THEN LET n == (AtobValue(d[1]) * 4096 + AtobValue(d[2]) * 64
                   + AtobValue(d[3])) \div 4 IN
         <<n \div 256, n % 256>>
    ELSE <<(AtobValue(d[1]) * 64 + AtobValue(d[2])) \div 16>>

\* what a codec call ends with: the array, or the exception atob raised
Decoded(bytes) == [threw |-> FALSE, bytes |-> bytes]
DecodeError == [threw |-> TRUE, bytes |-> <<>>]

\* window.atob(base64) and the copy of its char codes into a Uint8Array
Atob(b) ==
    LET d == AtobStripped(b) IN
    IF Len(d) % 4 = 1 \/ \E i \in DOMAIN d : AtobValue(d[i]) = -1
    THEN DecodeError
    ELSE Decoded(AtobBytes(d))

\* (base64String + padding).replace(/-/g, '+').replace(/_/g, '/')
NS_base64_minusOnly(s) == ReplaceAll(s \o Padding(s), "-", "+")
NS_base64(s) == ReplaceAll(ReplaceAll(s \o Padding(s), "-", "+"), "_", "/")

NS_urlB64ToUint8Array(s) == Atob(NS_base64(s))

\* (base64String + padding).replace(/\-/g, '+').replace(/_/g, '/')
PNC_base64(s) == ReplaceAll(ReplaceAll(s \o Padding(s), "-", "+"), "_", "/")

PNC_urlB64ToUint8Array(s) == Atob(PNC_base64(s))

\* one more call of NotificationService.urlB64ToUint8Array on the string
NS_decode ==
    /\ Len(codecOutput["NotificationService"]) < MaxDecodes
    /\ codecOutput' = [codecOutput EXCEPT !["NotificationService"] =
            Append(@, NS_urlB64ToUint8Array(codecInput))]
    /\ UNCHANGED <<codecInput, managerVars, workerVars, apiVars>>

\* one more call of PushNotificationClient.urlB64ToUint8Array on the string
PNC_decode ==
    /\ Len(codecOutput["PushNotificationClient"]) < MaxDecodes
    /\ codecOutput' = [codecOutput EXCEPT !["PushNotificationClient"] =
            Append(@, PNC_urlB64ToUint8Array(codecInput))]
    /\ UNCHANGED <<codecInput, managerVars, workerVars, apiVars>>

NextCodec ==
    \/ NS_decode
    \/ PNC_decode

\* a page that supports push; the string is any of the inputs
InitCodec ==
    /\ InitPage
    /\ hasServiceWorker /\ hasPushManager
    /\ InitApi
    /\ codecInput \in CodecInputs
    /\ InitCodecOutput

SpecCodec == InitCodec /\ [][NextCodec]_vars

\* ================================================================== claims
\* observations on the request log of a call
Has(r, req) == \E i \in DOMAIN r.log : r.log[i].req = req

HasRes(r, req, res) ==
    \E i \in DOMAIN r.log : r.log[i].req = req /\ r.log[i].res = res

Count(r, req) == Cardinality({i \in DOMAIN r.log : r.log[i].req = req})

Requests(r) == [i \in DOMAIN r.log |-> r.log[i].req]

\* the outcomes with which an awaited step did not deliver what was asked
Failures == {"fail", "httperr", "neterr", "nokey"}

Failed(r, req) == \E res \in Failures : HasRes(r, req, res)

AnyFailed(r) == \E i \in DOMAIN r.log : r.log[i].res \in Failures

Done(c, o) == calls[c].pc = "done" /\ calls[c].op = o

SetTrue(r) == \E i \in DOMAIN r.assigned : r.assigned[i] = TRUE

\* the call ran with no other call in flight
Solo(c) == solo.call = c

\* C1: a subscribe call sets the subscribed flag to true only after, in this
\* order, the key was obtained, the platform subscription was created and the
\* backend accepted the POST; a call in which a step failed does not set it.
C1_FlagOnlyAfterAcceptedPost ==
    \A c \in Calls :
        Done(c, "subscribe") /\ SetTrue(calls[c]) =>
            /\ ~AnyFailed(calls[c])
            /\ Requests(calls[c]) \in
                 {<<"GET vapid-key", "pm.subscribe", "POST subscribe">>,
                  <<"pm.subscribe", "POST subscribe">>,
                  <<"GET vapid-key", "response.json", "pm.subscribe",
                    "POST subscribe">>}

\* C2: the soft operations of NotificationService always resolve with a value
\* and never raise; subscribe, unsubscribe and sendNotification resolve to
\* false whenever one of their steps failed.
C2_SoftOperationsNeverThrow ==
    \A c \in Calls :
        impl = "NotificationService" /\ calls[c].pc = "done"
        /\ calls[c].op \in {"subscribe", "unsubscribe"} \cup ProxyOps =>
            /\ calls[c].ret \in {"true", "false", "data", "zeros"}
            /\ calls[c].op \in {"subscribe", "unsubscribe", "sendNotification"} =>
                /\ calls[c].ret \in {"true", "false"}
                /\ AnyFailed(calls[c]) => calls[c].ret = "false"
                /\ \A i \in DOMAIN calls[c].log :
                     calls[c].log[i].req = "pm.subscribe"
                     /\ DecodeThrows(calls[c].log[i].arg) => calls[c].ret = "false"

C2_Witness ==
    \E c \in Calls :
        /\ impl = "NotificationService"
        /\ Done(c, "subscribe")
        /\ HasRes(calls[c], "pm.subscribe", "ok")
        /\ HasRes(calls[c], "POST subscribe", "neterr")
        /\ calls[c].ret = "false"

\* C3: when the VAPID key fetch fails, subscribe returns false, attempts
\* neither pushManager.subscribe nor the subscription POST, and leaves the
\* subscribed flag as it was.
C3_KeyFetchFailureStopsSubscribe ==
    \A c \in Calls :
        Done(c, "subscribe") /\ Failed(calls[c], "GET vapid-key") =>
            /\ calls[c].ret = "false"
            /\ ~Has(calls[c], "pm.subscribe")
            /\ ~Has(calls[c], "POST subscribe")
            /\ calls[c].assigned = <<>>
            /\ Solo(c) => getSubscriptionStatus = solo.flag

C3_Witness ==
    \E c \in Calls :
        /\ Done(c, "subscribe")
        /\ Solo(c)
        /\ swRegistration = Reg
        /\ HasRes(calls[c], "GET vapid-key", "httperr")
        /\ calls[c].ret = "false"

\* C4: on a supporting platform a failed key pre-fetch does not fail
\* initialize(): it still returns true with the worker registered and the
\* flag probed.
C4_InitializeSurvivesKeyFailure ==
    \A c \in Calls :
        impl = "NotificationService" /\ Done(c, "initialize")
        /\ Failed(calls[c], "GET vapid-key") =>
            /\ calls[c].ret = "true"
            /\ swRegistration = Reg
            /\ calls[c].assigned # <<>>

\* C5: without serviceWorker or PushManager support initialize() resolves to
\* false, calls neither navigator.serviceWorker.register nor the backend, and
\* leaves the registration unset and the subscribed flag false.
C5_UnsupportedInitialize ==
    \A c \in Calls :
        Done(c, "initialize") /\ ~(hasServiceWorker /\ hasPushManager) =>
            /\ calls[c].ret = "false"
            /\ calls[c].log = <<>>
            /\ swRegistration = Null
            /\ getSubscriptionStatus = FALSE

C5_Witness ==
    \E c \in Calls :
        /\ Done(c, "initialize")
        /\ hasServiceWorker /\ ~hasPushManager
        /\ calls[c].ret = "false"

\* C6: once initialize() returned false for lack of platform support, every
\* subscribe returns false, creates no platform subscription, sends no
\* subscription POST, and the subscribed flag stays false.
C6_UnsupportedIsTerminal ==
    lastInit = "unsupported" =>
        /\ getSubscriptionStatus = FALSE
        /\ ~platformSub
        /\ \A c \in Calls :
            Done(c, "subscribe") =>
                /\ calls[c].ret = "false"
                /\ ~Has(calls[c], "pm.subscribe")
                /\ ~Has(calls[c], "POST subscribe")

C6_Witness ==
    /\ lastInit = "unsupported"
    /\ \E c \in Calls : Done(c, "subscribe") /\ calls[c].ret = "false"

\* C7: unsubscribe attempts its two steps independently: the DELETE goes out
\* even when revoking the platform subscription fails, and the platform
\* subscription is revoked even when the DELETE fails.
C7_UnsubscribeStepsIndependent ==
    \A c \in Calls :
        Done(c, "unsubscribe") =>
            /\ Failed(calls[c], "sub.unsubscribe") =>
                    Has(calls[c], "DELETE unsubscribe")
            /\ Failed(calls[c], "DELETE unsubscribe")
               /\ Has(calls[c], "sub.unsubscribe") =>
                    HasRes(calls[c], "sub.unsubscribe", "ok")

\* C8: after an unsubscribe call from the Subscribed state completes, the
\* manager is locally unsubscribed also when the backend DELETE failed and
\* the call returned false.
C8_UnsubscribedAfterUnsubscribe ==
    \A c \in Calls :
        impl = "NotificationService" /\ Done(c, "unsubscribe")
        /\ Solo(c) /\ solo.flag
        /\ Failed(calls[c], "DELETE unsubscribe") =>
            getSubscriptionStatus = FALSE

\* the subscription lookup of an unsubscribe call found nothing to revoke
NothingToRevoke(r) ==
    /\ r.log # <<>>
    /\ \/ r.log[1].req = "DELETE unsubscribe"
       \/ r.log[1].req = "pm.getSubscription" /\ r.log[1].res = "ok:null"

C10_FailedSubscribeChangesNothing ==
    \A c \in Calls :
        impl = "NotificationService" /\ Done(c, "subscribe")
        /\ Solo(c) /\ calls[c].ret = "false" =>
            /\ getSubscriptionStatus = solo.flag
            /\ platformSub = solo.sub

\* C11: when the backend call fails, sendBulkNotification resolves with
\* exactly {sent: 0, failed: 0, no_subscription: 0} and getStats with all four
\* counters zero, neither raises, and neither touches the subscription state.
C11_ZeroCountsOnFailure ==
    \A c \in Calls :
        impl = "NotificationService" /\ calls[c].pc = "done"
        /\ calls[c].op \in {"sendBulkNotification", "getStats"}
        /\ AnyFailed(calls[c]) =>
            /\ calls[c].ret = "zeros"
            /\ calls[c].value =
                 IF calls[c].op = "sendBulkNotification"
                 THEN {<<"sent", 0>>, <<"failed", 0>>, <<"no_subscription", 0>>}
                 ELSE {<<"total_sent", 0>>, <<"total_failed", 0>>,
                       <<"total_no_subscription", 0>>,
                       <<"active_subscriptions", 0>>}
            /\ calls[c].assigned = <<>>
            /\ Solo(c) => getSubscriptionStatus = solo.flag /\ platformSub = solo.sub

C11_Witness ==
    \E c \in Calls :
        /\ impl = "NotificationService"
        /\ Done(c, "sendBulkNotification")
        /\ Solo(c) /\ solo.flag
        /\ HasRes(calls[c], "POST send-bulk", "httperr")
        /\ calls[c].ret = "zeros"

\* ------------------------------------------------ worker claims: helpers
Shown == Made("showNotification")
Closed == Effect("notification.close", 0, "-", NoSpec, NoMsg)

\* a click the given worker script is handling or has handled
ClickIn(variant) == swHandler.kind = "click" /\ swHandler.variant = variant

\* some client of the list is a page of this origin
HasOriginClient == \E i \in DOMAIN swEvent.clients : swEvent.clients[i]

\* the message the spec describes for the click being handled
ClickMessage ==
    [type |-> "NOTIFICATION_CLICK", action |-> swEvent.action,
     data |-> IF swEvent.data.isNull THEN EmptyData ELSE swEvent.data,
     notification |-> swEvent.notification]

\* C12: for every push event (no data, a well-formed JSON body, a malformed
\* body) the handler calls showNotification exactly once and does not fail;
\* for a body that cannot be parsed the notification carries the hard-coded
\* default title and fields.
C12_EveryPushShowsOnce ==
    swHandler.kind = "push" =>
        /\ ~swHandler.threw
        /\ Len(Shown) = 1
        /\ swEvent.body = "malformed" =>
            Shown[1].spec = SWA_displaySpec(SWA_notificationData)

\* C13: the display spec's requireInteraction is false exactly when the
\* payload sets requireInteraction to false; it is true for a payload that
\* omits the field, sets another value, or cannot be parsed.
C13_RequireInteractionUnlessFalse ==
    swHandler.kind = "push" =>
        \A i \in DOMAIN Shown :
            Shown[i].spec.requireInteraction =
                IF swEvent.body = "json"
                   /\ swEvent.payload.requireInteraction = "false"
                THEN "false" ELSE "true"

\* the optional fields of a display spec
OptionalFields == {"icon", "badge", "image", "body", "tag", "data", "actions"}

\* the value the wire format carries for a display field (message|body,
\* category|tag, payload|data), Undefined or empty when it carries none
WireValue(p, f) ==
    CASE f = "body" -> Or(p.message, p.body)
      [] f = "tag" -> Or(p.category, p.tag)
      [] f = "data" -> Or(p.payload, p.data)
      [] OTHER -> p[f]

\* what the handler of a variant shows for a payload that supplies nothing
EmptyPayloadSpec(variant) ==
    IF variant = "messaging" THEN SWA_displaySpec(SWA_override(NoPayload))
    ELSE SWB_displaySpec(NoPayload)

\* C14: for each optional field (icon, badge, image, body, tag, data,
\* actions) on its own: a payload that omits the field yields the fixed
\* default for it, a payload that supplies it yields exactly the supplied
\* value, whatever the other fields are.
C14_FieldLevelOverride ==
    swHandler.kind = "push" /\ swEvent.body = "json" =>
        \A i \in DOMAIN Shown : \A f \in OptionalFields :
            LET w == WireValue(swEvent.payload, f) IN
            IF w \in Falsy
            THEN /\ Shown[i].spec[f] # Undefined
                 /\ Shown[i].spec[f] = EmptyPayloadSpec(swHandler.variant)[f]
            ELSE Shown[i].spec[f] = w

\* C15: every display spec handed to showNotification has a non-empty
\* title, also for a missing or empty title and for a body that fails to
\* parse.
C15_TitleNonEmpty ==
    swHandler.kind = "push" =>
        \A i \in DOMAIN Shown : Shown[i].spec.title # ""

\* C16: in every display spec handed to showNotification the action strings
\* of the actions list are pairwise distinct, for the default list and for a
\* list supplied by the server.
C16_ActionStringsDistinct ==
    swHandler.kind = "push" =>
        \A i \in DOMAIN Shown :
            LET a == ActionList(Shown[i].spec.actions) IN
            \A j, k \in DOMAIN a : j # k => a[j] # a[k]

\* C17: a click whose action is 'dismiss' closes the notification and does
\* nothing else: no network call, no client enumerated, focused or messaged,
\* no window opened (messaging worker).
C17_DismissOnlyCloses ==
    ClickIn("messaging") /\ swEvent.action = "dismiss" =>
        swEffects = <<Closed>>

C17_Witness ==
    /\ ClickIn("messaging") /\ swEvent.action = "dismiss"
    /\ swHandler.pc = "done"
    /\ HasOriginClient
    /\ swEvent.data.url = "/data-url"
    /\ swEffects = <<Closed>>

\* C18: a click that is not a dismiss, with at least one window client of
\* this origin open: exactly one client is focused, that client receives
\* exactly one NOTIFICATION_CLICK message {type, action, data, notification:
\* {title, body, tag}}, no other client is messaged, no window is opened.
C18_FocusedClientMessagedOnce ==
    /\ ClickIn("messaging") /\ swHandler.pc = "done"
    /\ swEvent.action # "dismiss"
    /\ HasOriginClient
    => /\ Len(Made("client.focus")) = 1
       /\ Len(Made("client.postMessage")) = 1
       /\ Made("client.postMessage")[1].client = Made("client.focus")[1].client
       /\ Made("client.postMessage")[1].msg = ClickMessage
       /\ Len(Made("clients.openWindow")) = 0

\* the URL the spec's priority order resolves to: data.url, else data.viewUrl
\* for the action 'view', else the origin root
ResolvedUrl ==
    IF ~swEvent.data.isNull /\ swEvent.data.url \notin {Undefined, ""}
    THEN swEvent.data.url
    ELSE IF /\ swEvent.action = "view" /\ ~swEvent.data.isNull
            /\ swEvent.data.viewUrl \notin {Undefined, ""}
         THEN swEvent.data.viewUrl
         ELSE Origin

\* C19: a click that is not a dismiss, with no matching open page: exactly
\* one window is opened, at data.url if present, else at data.viewUrl when
\* the action is 'view', else at the origin root; the NOTIFICATION_CLICK
\* message is posted exactly once to the new page if the platform returned
\* one, and to no one otherwise.
C19_OpensOneWindowAtResolvedUrl ==
    /\ ClickIn("messaging") /\ swHandler.pc = "done"
    /\ swEvent.action # "dismiss"
    /\ ~HasOriginClient
    => /\ Len(Made("clients.openWindow")) = 1
       /\ Made("clients.openWindow")[1].arg = ResolvedUrl
       /\ Len(Made("client.focus")) = 0
       /\ IF swHandler.settled = "client"
          THEN /\ Len(Made("client.postMessage")) = 1
               /\ Made("client.postMessage")[1].client \notin DOMAIN swEvent.clients
               /\ Made("client.postMessage")[1].msg = ClickMessage
          ELSE Len(Made("client.postMessage")) = 0

C19_Witness ==
    /\ ClickIn("messaging") /\ swHandler.pc = "done"
    /\ swEvent.action = "view"
    /\ swEvent.clients = <<FALSE>>
    /\ swEvent.data.url = "/data-url" /\ swEvent.data.viewUrl = "/view-url"
    /\ swHandler.settled = "client"
    /\ Made("clients.openWindow")[1].arg = "/data-url"
    /\ Len(Made("client.postMessage")) = 1

\* the POST body the spec describes for the click being handled
ActionBody ==
    [action |-> swEvent.action, category |-> swEvent.data.category,
     payload |-> swEvent.data.payload]

PostsAction ==
    /\ Len(Made("fetch")) = 1
    /\ Made("fetch")[1].arg = "POST /api/v1/notifications/action"
    /\ Made("fetch")[1].msg = ActionBody

OpensPayloadUrl ==
    \E i \in DOMAIN swEffects :
        /\ swEffects[i].call = "clients.openWindow"
        /\ swEffects[i].arg = PayloadUrl(swEvent.data)

\* C20 as stated: in the callback worker each of confirm, reject and details
\* triggers an immediate POST /notifications/action with body {action,
\* category, payload}; details with a payload URL also opens that URL; any
\* other action, a plain click included, triggers neither.
C20_NamedActionsPost ==
    ClickIn("callback") =>
        IF swEvent.action \in {"confirm", "reject", "details"}
        THEN /\ PostsAction
             /\ swEvent.action = "details" /\ PayloadUrl(swEvent.data) # Undefined
                    => OpensPayloadUrl
        ELSE /\ Len(Made("fetch")) = 0
             /\ Len(Made("clients.openWindow")) = 0

\* C20 amended: confirm and reject on a notification that carries data
\* trigger an immediate POST /notifications/action with body {action,
\* category, payload}, and nothing is posted when the data is null; details
\* never posts and opens the payload URL when the data carries one, nothing
\* otherwise; any other action, a plain click included, posts nothing and
\* opens nothing.
C20_ConfirmRejectPostDetailsOpens ==
    ClickIn("callback") =>
        IF swEvent.action \in {"confirm", "reject"}
        THEN IF swEvent.data.isNull
             THEN swEffects = <<Closed>>
             ELSE PostsAction
        ELSE /\ Len(Made("fetch")) = 0
             /\ IF swEvent.action = "details"
                   /\ PayloadUrl(swEvent.data) # Undefined
                THEN /\ Len(Made("clients.openWindow")) = 1
                     /\ OpensPayloadUrl
                ELSE Len(Made("clients.openWindow")) = 0

C20_Witness ==
    /\ ClickIn("callback") /\ swHandler.pc = "done"
    /\ swEvent.action = "details"
    /\ swEvent.data.payload = "{url}"
    /\ Len(Made("fetch")) = 0
    /\ Made("clients.openWindow")[1].arg = "/payload-url"

\* the handler of a pushsubscriptionchange event is running or has finished
SubscriptionChanging == swHandler.kind = "subchange"

\* C21: on pushsubscriptionchange the worker creates a replacement
\* subscription (userVisibleOnly true, the old subscription's
\* applicationServerKey when there is one) and then sends {oldSubscription,
\* newSubscription} to the update-subscription endpoint; the update is issued
\* only after the replacement was created, not at all when creation fails;
\* the event's lifetime is extended over the whole chain and every failure
\* is swallowed.
C21_ReplacementThenUpdate ==
    SubscriptionChanging =>
        /\ swEffects[1].call = "pushManager.subscribe"
        /\ swEffects[1].msg.userVisibleOnly
        /\ swEffects[1].arg =
            IF swEvent.oldSubscription = "old+key" THEN "old-key" ELSE Undefined
        /\ Len(Made("pushManager.subscribe")) = 1
        /\ swHandler.pc = "resubscribe" => Len(Made("fetch")) = 0
        /\ swHandler.settled = "subscribe rejected" => Len(Made("fetch")) = 0
        /\ \A i \in DOMAIN swEffects :
            swEffects[i].call = "fetch" =>
                /\ i = 2 /\ Len(swEffects) = 2
                /\ swEffects[i].arg =
                    "POST /api/v1/notifications/update-subscription"
                /\ swEffects[i].msg =
                    [oldSubscription |-> swEvent.oldSubscription,
                     newSubscription |-> "new"]
        /\ swHandler.extended
        /\ ~swHandler.threw
        /\ swHandler.settled # "cut"

C21_Witness ==
    /\ SubscriptionChanging /\ swHandler.pc = "done"
    /\ swEvent.oldSubscription = "old+key"
    /\ Len(swEffects) = 2
    /\ swHandler.settled = "fetch rejected"

\* C23: in every notificationclick handling, for every action and in both
\* workers, the notification is closed first, before any client enumeration,
\* focus, window open, message or backend call, whatever becomes of a later
\* backend call.
C23_CloseFirst ==
    swHandler.kind = "click" =>
        /\ swEffects # <<>>
        /\ swEffects[1] = Closed
        /\ Len(Made("notification.close")) = 1

C23_Witness ==
    /\ ClickIn("callback") /\ swHandler.pc = "done"
    /\ swEvent.action = "confirm"
    /\ Len(Made("fetch")) = 1
    /\ swHandler.settled = "caught"
    /\ swEffects[1] = Closed

\* C24: every worker event handler extends the event's lifetime over all
\* asynchronous work it starts (showNotification, client enumeration, focus,
\* open, pushManager.subscribe, every backend fetch), so that a runtime that
\* may stop the worker once a handler has returned with no pending extension
\* cuts off no started network or display call.
C24_LifetimeCoversAsyncWork ==
    /\ swHandler.pc \notin {"idle", "done"} => swHandler.extended
    /\ swHandler.settled # "cut"

\* the answered key requests of the calls now in flight that delivered a key
KeyFetches ==
    {ci \in Calls \X (1..8) :
        /\ ci[2] \in DOMAIN calls[ci[1]].log
        /\ calls[ci[1]].log[ci[2]].req = "GET vapid-key"
        /\ calls[ci[1]].log[ci[2]].res = "ok"}

\* C25: the VAPID public key is fetched once per page session: over any
\* sequence or overlap of initialize() and subscribe() calls in which the
\* fetch succeeds, GET /notifications/vapid-key is issued at most once, and a
\* cached key is reused and never changes.
C25_KeyFetchedOncePerSession ==
    /\ Cardinality(KeyFetches) <= 1
    /\ \A c \in Calls :
        calls[c].pc = "done" /\ Has(calls[c], "pm.subscribe") /\ VapidCached =>
            \E i \in DOMAIN calls[c].log :
                /\ calls[c].log[i].req = "pm.subscribe"
                /\ calls[c].log[i].arg = vapidPublicKey

\* C26: after a successful initialize(), at every quiescent state
\* getSubscriptionStatus() is true exactly when the platform holds an active
\* push subscription for the registration, after any sequence of subscribe
\* and unsubscribe calls with any mix of platform and backend failures.
\* Checked call by call: a subscribe or unsubscribe that ran alone, after
\* initialize() succeeded, from a state where flag and platform agreed, has
\* returned to a state where they agree.
C26_FlagMirrorsPlatform ==
    \A c \in Calls :
        /\ impl = "NotificationService" /\ lastInit = "ready"
        /\ calls[c].pc = "done" /\ calls[c].op \in {"subscribe", "unsubscribe"}
        /\ Solo(c) /\ (solo.flag <=> solo.sub)
        => (getSubscriptionStatus <=> platformSub)

\* the value of a character in the base64url alphabet (RFC 4648, table 2)
UrlValue(ch) ==
    CASE ch = "A" -> 0
      [] ch = "B" -> 1
      [] ch = "Q" -> 16
      [] ch = "-" -> 62
      [] ch = "_" -> 63
      [] OTHER -> -1

\* an unpadded base64url string: only characters of the alphabet, and a
\* length that is not one more than a multiple of four
ValidBase64Url(s) ==
    /\ \A i \in DOMAIN s : UrlValue(s[i]) >= 0
    /\ Len(s) % 4 # 1

\* the k-th byte (from 1) of the bit string that s encodes, six bits a
\* character
DecodedByte(s, k) ==
    LET o == 8 * (k - 1)
        j == o \div 6 + 1
    IN CASE o % 6 = 0 -> UrlValue(s[j]) * 4 + UrlValue(s[j + 1]) \div 16
         [] o % 6 = 2 -> (UrlValue(s[j]) % 16) * 16 + UrlValue(s[j + 1]) \div 4
         [] o % 6 = 4 -> (UrlValue(s[j]) % 4) * 64 + UrlValue(s[j + 1])

DecodedLength(s) == (6 * Len(s)) \div 8

\* C22: the key codec is a pure base64url decoder: for every valid unpadded
\* base64url string it returns the decoded bytes (as many as the string
\* encodes, the i-th being the i-th decoded byte); repeated calls on the same
\* string return equal arrays and touch no manager state; both
\* implementations agree on every input.
C22_CodecDecodesBase64Url ==
    /\ \A m \in Codecs : \A i \in DOMAIN codecOutput[m] :
        /\ ValidBase64Url(codecInput) =>
            /\ ~codecOutput[m][i].threw
            /\ Len(codecOutput[m][i].bytes) = DecodedLength(codecInput)
            /\ \A k \in 1..DecodedLength(codecInput) :
                codecOutput[m][i].bytes[k] = DecodedByte(codecInput, k)
        /\ \A n \in Codecs : \A j \in DOMAIN codecOutput[n] :
            codecOutput[n][j] = codecOutput[m][i]
    /\ (\E m \in Codecs : codecOutput[m] # <<>>) =>
        /\ swRegistration = Null /\ isSubscribed = FALSE
        /\ vapidPublicKey = Null /\ lastInit = "none"
        /\ \A c \in Calls : calls[c] = Idle

C22_Witness ==
    /\ codecInput = <<"-", "_", "Q">>
    /\ \A m \in Codecs : Len(codecOutput[m]) = MaxDecodes
    /\ codecOutput["NotificationService"][1] = Decoded(<<251, 244>>)
    /\ codecOutput["PushNotificationClient"][2] = Decoded(<<251, 244>>)

\* ---------------------------------------------------- ApiService claims
\* the refresh requests that were sent and not answered yet
RefreshesInFlight ==
    {k \in DOMAIN refreshes : refreshes[k].state = "inflight"}

\* in this step request r is answered with a 401
Gets401(r) ==
    /\ requests'[r].answers = requests[r].answers + 1
    /\ requests'[r].status = 401

\* in this step request r is queued behind the refresh in progress
Queues(r) ==
    /\ requests'[r].state = "queued"
    /\ refreshSubscribers' = Append(refreshSubscribers, RequestCallback(r))
    /\ Len(refreshes') = Len(refreshes)

\* C27 as stated: at most one token-refresh request is in flight at any
\* time; while a refresh is in progress (isRefreshing true) every further 401
\* response queues a callback in refreshSubscribers instead of starting
\* another refresh.
C27_EveryFurther401Queues ==
    /\ [](Cardinality(RefreshesInFlight) <= 1)
    /\ [][\A r \in Reqs : isRefreshing /\ Gets401(r) => Queues(r)]_vars

\* C27 amended: at most one token-refresh request is in flight at any time
\* and isRefreshing is true while it is; while isRefreshing is true a 401 for
\* a request not yet marked _retry queues a callback in refreshSubscribers,
\* a 401 for a request already marked _retry is rejected to its caller, and
\* neither starts another refresh.
C27_OneRefreshInFlight ==
    /\ [](/\ Cardinality(RefreshesInFlight) <= 1
          /\ RefreshesInFlight # {} => isRefreshing)
    /\ [][\A r \in Reqs :
            isRefreshing /\ Gets401(r) =>
                IF requests[r].retry
                THEN /\ requests'[r].state = "rejected"
                     /\ UNCHANGED <<refreshSubscribers, refreshes>>
                ELSE Queues(r)]_vars

C27_Witness ==
    /\ isRefreshing
    /\ Cardinality(RefreshesInFlight) = 1
    /\ \E r, q \in Reqs :
        /\ requests[r].state = "refreshing"
        /\ requests[q].state = "queued" /\ requests[q].status = 401
        /\ refreshSubscribers = <<RequestCallback(q)>>

\* the request got a 401 and waits for what the interceptor does with it
Waiting(r) == requests[r].state \in {"refreshing", "queued"}

\* every refresh that was started has ended
RefreshesEnded ==
    /\ refreshes # <<>>
    /\ \A k \in DOMAIN refreshes : refreshes[k].state \in {"ok", "failed"}

\* C28: every request that receives a 401 eventually settles: it is sent
\* again with the new access token or its promise is rejected, whether the
\* refresh succeeds or fails (the refresh itself answering 401 included),
\* also for requests queued while a refresh was in flight; after the refresh
\* has ended isRefreshing is false and refreshSubscribers is empty.
C28_Every401Settles ==
    /\ \A r \in Reqs : Waiting(r) ~> ~Waiting(r)
    /\ [](RefreshesEnded => ~isRefreshing /\ refreshSubscribers = <<>>)

\* C29: the interceptor sends any request again at most once: a request that
\* gets 401 after having been sent again is rejected to its caller without
\* starting another refresh, the request that started the refresh and the
\* requests queued behind it alike.
C29_ResentAtMostOnce ==
    /\ \A r \in Reqs :
        /\ requests[r].sends <= 2
        /\ requests[r].sends = 2 /\ requests[r].answers = 2
           /\ requests[r].status = 401 => requests[r].state = "rejected"
    /\ \A k \in DOMAIN refreshes : refreshes[k].bySend = 1

\* in this step the answer to the k-th refresh request arrives
RefreshAnswered(k) == refreshes[k].status = 0 /\ refreshes'[k].status # 0

\* C30: when the token refresh fails the interceptor removes the access and
\* the refresh token from local storage, sends the page to /login, rejects
\* the original request with the refresh error and resets isRefreshing; when
\* it succeeds the new access token is stored before the original request
\* and the queued requests are sent again with it.
C30_RefreshOutcomeHandled ==
    [][\A k \in DOMAIN refreshes :
        RefreshAnswered(k) =>
            IF refreshes'[k].status = 200
            THEN /\ localStorage'.access \notin {NoToken, localStorage.access}
                 /\ \A r \in QueuedRequests \cup {refreshes[k].by} :
                        /\ requests'[r].state = "inflight"
                        /\ requests'[r].sends = requests[r].sends + 1
                        /\ requests'[r].token = localStorage'.access
            ELSE /\ localStorage' = [access |-> NoToken, refresh |-> FALSE]
                 /\ location' = "/login"
                 /\ requests'[refreshes[k].by].state = "rejected"
                 /\ requests'[refreshes[k].by].error = "refresh"
                 /\ ~isRefreshing']_vars

====
